---- MODULE Spec2Model ----
(***************************************************************************)
(* Model of sql-perf-linter: the lint session (lint / lint_one /           *)
(* lint_errors), the statement dispatcher (lint_statement /                *)
(* lint_alter_table) and the three rules (lint_add_column,                 *)
(* lint_create_index), together with main's exit code.                     *)
(*                                                                         *)
(* The two external collaborators, fs::read_to_string and                  *)
(* Parser::parse_sql, are modelled by their results: an input file is a    *)
(* record saying whether it can be read, whether its text parses, and, if  *)
(* so, the syntax tree the parser returns.                                 *)
(***************************************************************************)
EXTENDS Integers, Sequences, FiniteSets, TLC

\* ---------------------------------------------------------------- bounds
MaxFiles == 3        \* files on the command line (batch specification)
MaxBatchStmts == 1   \* statements per script in the batch specification
MaxStmts == 2        \* statements per script in the rule specification
MaxOpts == 2         \* options per column definition

\* ------------------------------------------------------- syntax trees
SeqsUpTo(S, n) == UNION {[1..k -> S] : k \in 0..n}

\* ast::ColumnOption: NotNull, Default(expr), and the variants the linter
\* does not look at (Unique stands for all of them).
ColumnOption == {"NotNull", "Default", "Unique"}

\* ast::ColumnDef {name, options, ..}
ColumnDef(n) == [name : {"c"}, options : SeqsUpTo(ColumnOption, n)]

\* ast::AlterTableOperation: AddColumn(def) and the other operations
\* (DropColumn stands for all of them).
AlterTableOperation(n) ==
    [kind : {"AddColumn"}, def : ColumnDef(n)] \cup {[kind |-> "DropColumn"]}

\* ast::Statement: AlterTable{name, operation}, CreateIndex{name,
\* concurrently, ..} and the statements no rule covers.
Statement(n) ==
    [kind : {"AlterTable"}, operation : AlterTableOperation(n)]
        \cup [kind : {"CreateIndex"}, name : {"idx"}, concurrently : BOOLEAN]
        \cup {[kind |-> "CreateTable"], [kind |-> "Insert"], [kind |-> "Query"]}

\* ------------------------------------------------------------ inputs
\* A file as the session sees it: the result of fs::read_to_string and of
\* Parser::parse_sql on its text.
Unreadable == [readable |-> FALSE, parses |-> FALSE, ast |-> <<>>]
Unparsable == [readable |-> TRUE, parses |-> FALSE, ast |-> <<>>]
Parsed(script) == [readable |-> TRUE, parses |-> TRUE, ast |-> script]

AddColumnStmt(opts) ==
    [kind |-> "AlterTable",
     operation |-> [kind |-> "AddColumn",
                    def |-> [name |-> "c", options |-> opts]]]

CreateIndexStmt(conc) ==
    [kind |-> "CreateIndex", name |-> "idx", concurrently |-> conc]

\* The statements of the batch specification: one for each arm of
\* lint_statement.
BatchStatements ==
    {[kind |-> "CreateTable"],
     AddColumnStmt(<<"NotNull", "Default">>),
     CreateIndexStmt(FALSE)}

BatchInputs ==
    {Unreadable, Unparsable}
        \cup {Parsed(s) : s \in SeqsUpTo(BatchStatements, MaxBatchStmts)}

RuleInputs ==
    {Unreadable, Unparsable}
        \cup {Parsed(s) : s \in SeqsUpTo(Statement(MaxOpts), MaxStmts)}

\* ------------------------------------------------------- error model
ErrorCode ==
    {"FileError", "SyntaxError", "NotNullColumn", "DefaultValue",
     "NonConcurrentIndex"}

\* LintError::new(code, message)
LintErrorNew(code, message) == [code |-> code, message |-> message]

\* ------------------------------------------------------------- rules
\* Variant: both options reported under the one code NotNullColumn.
add_column_option_conflated(def, opt) ==
    CASE opt = "NotNull" ->
            <<LintErrorNew("NotNullColumn",
                <<"Column", def.name, "is added with the NOT NULL option">>)>>
      [] opt = "Default" ->
            <<LintErrorNew("NotNullColumn",
                <<"Column", def.name, "is added with a default value">>)>>
      [] OTHER -> <<>>

\* Variant: NOT NULL goes unreported.
add_column_option_no_not_null(def, opt) ==
    CASE opt = "Default" ->
            <<LintErrorNew("DefaultValue",
                <<"Column", def.name, "is added with a default value">>)>>
      [] OTHER -> <<>>

add_column_option(def, opt) ==
    CASE opt = "NotNull" ->
            <<LintErrorNew("NotNullColumn",
                <<"Column", def.name, "is added with the NOT NULL option">>)>>
      [] opt = "Default" ->
            <<LintErrorNew("DefaultValue",
                <<"Column", def.name, "is added with a default value">>)>>
      [] OTHER -> <<>>

RECURSIVE filter_map_options(_, _)
\* def.options.iter().filter_map(..).collect(): add_column_option returns a
\* sequence of length 0 for None and of length 1 for Some.
filter_map_options(def, opts) ==
    IF opts = <<>>
    THEN <<>>
    ELSE add_column_option(def, Head(opts))
            \o filter_map_options(def, Tail(opts))

\* Variant: the rules run in a fixed order (NOT NULL rule, then DEFAULT rule),
\* each over all the options, instead of the options in declared order.
lint_add_column_by_rule(def) ==
    filter_map_options(def, SelectSeq(def.options, LAMBDA o : o = "NotNull"))
        \o filter_map_options(def, SelectSeq(def.options, LAMBDA o : o = "Default"))

lint_add_column(def) == filter_map_options(def, def.options)

\* Variant: the test of the concurrently flag inverted.
lint_create_index_inverted(name, concurrently) ==
    IF ~concurrently
    THEN <<>>
    ELSE <<LintErrorNew("NonConcurrentIndex",
              <<"Index", name, "is created without CONCURRENTLY">>)>>

lint_create_index(name, concurrently) ==
    IF concurrently
    THEN <<>>
    ELSE <<LintErrorNew("NonConcurrentIndex",
              <<"Index", name, "is created without CONCURRENTLY">>)>>

\* Variant: an operation other than ADD COLUMN is reported.
lint_alter_table_strict(operation) ==
    IF operation.kind = "AddColumn"
    THEN lint_add_column(operation.def)
    ELSE <<LintErrorNew("SyntaxError", <<"unsupported operation">>)>>

lint_alter_table(operation) ==
    IF operation.kind = "AddColumn"
    THEN lint_add_column(operation.def)
    ELSE <<>>

lint_statement(stmt) ==
    CASE stmt.kind = "AlterTable" -> lint_alter_table(stmt.operation)
      [] stmt.kind = "CreateIndex" ->
            lint_create_index(stmt.name, stmt.concurrently)
      [] OTHER -> <<>>

RECURSIVE ConcatReversed(_)
\* Variant: the parts joined last to first.
ConcatReversed(ss) ==
    IF ss = <<>> THEN <<>> ELSE ConcatReversed(Tail(ss)) \o Head(ss)

RECURSIVE Concat(_)
\* [Vec<T>]::concat
Concat(ss) == IF ss = <<>> THEN <<>> ELSE Head(ss) \o Concat(Tail(ss))

\* ast.iter().map(lint_statement).collect().concat()
dispatch(ast) == Concat([i \in 1..Len(ast) |-> lint_statement(ast[i])])

\* Variant: a parse failure swallowed, the file linted as an empty script.
lint_errors_swallowed(file) ==
    IF ~file.readable
    THEN <<LintErrorNew("FileError", <<"io error">>)>>
    ELSE IF ~file.parses
    THEN <<>>
    ELSE dispatch(file.ast)

lint_errors(file) ==
    IF ~file.readable
    THEN <<LintErrorNew("FileError", <<"io error">>)>>
    ELSE IF ~file.parses
    THEN <<LintErrorNew("SyntaxError", <<"parser error">>)>>
    ELSE dispatch(file.ast)

\* ----------------------------------------------------------- session
VARIABLES
    files,      \* the command-line file list, as the inputs it names
    idx,        \* position of the fold over files
    success,    \* accumulator of the fold
    log,        \* files lint_one was called for (its debug! line)
    out,        \* lines printed to stdout
    pc,         \* "fold", "returned" (lint has returned), "exited"
    exit_code   \* <<>> while running, <<code>> once the process exited

vars == <<files, idx, success, log, out, pc, exit_code>>

\* One println! line per error: "{file}:{code:?}:{message}"
PrintLines(i, errors) ==
    [k \in 1..Len(errors) |->
        [file |-> i, code |-> errors[k].code, message |-> errors[k].message]]

\* errors.is_empty(), the value lint_one returns
lint_one_result(errors) == errors = <<>>

\* The initial accumulator of the fold
FoldInit == TRUE

\* Variant: the two exit codes swapped.
ExitCodeSwapped(ok) == IF ok THEN 1 ELSE 0

\* if linter::lint(..) { 0 } else { 1 }
ExitCode(ok) == IF ok THEN 0 ELSE 1

InitWith(fs) ==
    /\ files = fs
    /\ idx = 1
    /\ success = FoldInit
    /\ log = <<>>
    /\ out = <<>>
    /\ pc = "fold"
    /\ exit_code = <<>>

Init == \E fs \in SeqsUpTo(BatchInputs, MaxFiles) : InitWith(fs)

InitRules == \E f \in RuleInputs : InitWith(<<f>>)

\* Fold step with success = true: the right operand of && is evaluated,
\* lint_one runs on the file, prints its errors and returns is_empty().
LintOne ==
    /\ pc = "fold"
    /\ idx <= Len(files)
    /\ success
    /\ LET errors == lint_errors(files[idx])
       IN  /\ log' = Append(log, idx)
           /\ out' = out \o PrintLines(idx, errors)
           /\ success' = lint_one_result(errors)
    /\ idx' = idx + 1
    /\ UNCHANGED <<files, pc, exit_code>>

\* Fold step with success = false: && short-circuits, lint_one is not
\* called and the accumulator stays false.
ShortCircuit ==
    /\ pc = "fold"
    /\ idx <= Len(files)
    /\ ~success
    /\ success' = FALSE
    /\ idx' = idx + 1
    /\ UNCHANGED <<files, log, out, pc, exit_code>>

\* The fold is over; lint returns the accumulator.
LintReturn ==
    /\ pc = "fold"
    /\ idx > Len(files)
    /\ pc' = "returned"
    /\ UNCHANGED <<files, idx, success, log, out, exit_code>>

\* main turns the verdict into the exit code and exits.
Exit ==
    /\ pc = "returned"
    /\ exit_code' = <<ExitCode(success)>>
    /\ pc' = "exited"
    /\ UNCHANGED <<files, idx, success, log, out>>

Next == LintOne \/ ShortCircuit \/ LintReturn \/ Exit

Spec == Init /\ [][Next]_vars

\* A session over one file: the fold can never short-circuit.
NextRules == LintOne \/ LintReturn \/ Exit

SpecRules == InitRules /\ [][NextRules]_vars

\* ------------------------------------------------ observing a session
\* lint_one was called for file i
Linted(i) == \E k \in 1..Len(log) : log[k] = i

\* The lines printed for file i, in print order
FileLines(i) == SelectSeq(out, LAMBDA l : l.file = i)

\* The Diagnostics reported for file i
Diagnostics(i) ==
    LET ls == FileLines(i)
    IN  [k \in 1..Len(ls) |-> [code |-> ls[k].code, message |-> ls[k].message]]

\* The codes of the Diagnostics reported for file i
Reported(i) ==
    LET ls == FileLines(i) IN [k \in 1..Len(ls) |-> ls[k].code]

Count(s, x) == Cardinality({k \in 1..Len(s) : s[k] = x})

Pos(s, x) == CHOOSE k \in 1..Len(s) : s[k] = x

IsAddColumn(stmt) ==
    stmt.kind = "AlterTable" /\ stmt.operation.kind = "AddColumn"

Options(stmt) == stmt.operation.def.options

\* File i parsed into a script of exactly one statement
SingleStatement(i) == files[i].parses /\ Len(files[i].ast) = 1

\* ---------------------------------------------------------------- C1
\* C1: batch isolation. Once the session is over, lint_one has been called
\* for every input of the list and the Diagnostics of every input have been
\* reported, whatever happened to the inputs before it.
C1_BatchIsolation ==
    pc = "exited" =>
        \A i \in 1..Len(files) :
            /\ Linted(i)
            /\ Diagnostics(i) = lint_errors(files[i])

\* ---------------------------------------------------------------- C2
\* C2: lint returns true iff every input of the list yields zero
\* Diagnostics, and the exit code is 0 exactly when lint returned true and 1
\* otherwise.
C2_Verdict ==
    /\ pc \in {"returned", "exited"} =>
          (success <=> \A i \in 1..Len(files) : lint_errors(files[i]) = <<>>)
    /\ pc = "exited" =>
          /\ Len(exit_code) = 1
          /\ success => exit_code[1] = 0
          /\ ~success => exit_code[1] = 1

C2_Witness ==
    /\ pc = "exited"
    /\ Len(files) >= 2
    /\ lint_errors(files[1]) = <<>>
    /\ lint_errors(files[2]) # <<>>
    /\ exit_code = <<1>>

\* ---------------------------------------------------------------- C3
\* C3: a linted input that cannot be read is reported as exactly one
\* FileError, one that is read but cannot be parsed as exactly one
\* SyntaxError; nothing else is reported for it and the verdict is false.
C3_ReadParseFailure ==
    \A i \in 1..Len(files) :
        Linted(i) =>
            /\ ~files[i].readable =>
                  Reported(i) = <<"FileError">> /\ ~success
            /\ (files[i].readable /\ ~files[i].parses) =>
                  Reported(i) = <<"SyntaxError">> /\ ~success

C3_Witness ==
    \E i \in 1..Len(files) :
        /\ i >= 2
        /\ Linted(i)
        /\ files[i].readable
        /\ ~files[i].parses
        /\ Reported(i) = <<"SyntaxError">>
        /\ pc = "exited"
        /\ exit_code = <<1>>

\* ---------------------------------------------------------------- C4
RECURSIVE OptionImage(_)
OptionImage(opts) ==
    IF opts = <<>>
    THEN <<>>
    ELSE (IF Head(opts) = "NotNull" THEN <<"NotNullColumn">>
          ELSE IF Head(opts) = "Default" THEN <<"DefaultValue">>
          ELSE <<>>) \o OptionImage(Tail(opts))

\* C4: the Diagnostics of an ADD COLUMN are the order-preserving image of
\* the column's option list: NotNullColumn for each NOT NULL, DefaultValue
\* for each DEFAULT, nothing for any other option.
C4_OptionImage ==
    \A i \in 1..Len(files) :
        (Linted(i) /\ SingleStatement(i) /\ IsAddColumn(files[i].ast[1])) =>
            Reported(i) = OptionImage(Options(files[i].ast[1]))

C4_Witness ==
    \E i \in 1..Len(files) :
        /\ Linted(i)
        /\ SingleStatement(i)
        /\ IsAddColumn(files[i].ast[1])
        /\ Options(files[i].ast[1]) = <<"Default", "NotNull">>
        /\ Reported(i) = <<"DefaultValue", "NotNullColumn">>

\* ---------------------------------------------------------------- C5
\* C5 as stated: an ADD COLUMN yields a NotNullColumn Diagnostic exactly when
\* the column carries NOT NULL and no DEFAULT.
C5_NotNullWithoutDefault ==
    \A i \in 1..Len(files) :
        (Linted(i) /\ SingleStatement(i) /\ IsAddColumn(files[i].ast[1])) =>
            LET opts == Options(files[i].ast[1])
            IN  (Count(Reported(i), "NotNullColumn") > 0)
                    <=> (Count(opts, "NotNull") > 0 /\ Count(opts, "Default") = 0)

\* C5 amended: an ADD COLUMN yields a NotNullColumn Diagnostic exactly when
\* the column carries NOT NULL, with or without a DEFAULT, one for each
\* NOT NULL option.
C5_NotNullOption ==
    \A i \in 1..Len(files) :
        (Linted(i) /\ SingleStatement(i) /\ IsAddColumn(files[i].ast[1])) =>
            Count(Reported(i), "NotNullColumn")
                = Count(Options(files[i].ast[1]), "NotNull")

C5_Witness ==
    \E i \in 1..Len(files) :
        /\ Linted(i)
        /\ SingleStatement(i)
        /\ IsAddColumn(files[i].ast[1])
        /\ Count(Options(files[i].ast[1]), "NotNull") = 1
        /\ Count(Options(files[i].ast[1]), "Default") = 1
        /\ Count(Reported(i), "NotNullColumn") = 1

\* ---------------------------------------------------------------- C6
\* C6: a CREATE INDEX yields exactly one NonConcurrentIndex Diagnostic when
\* its concurrently flag is false and nothing when the flag is true.
C6_CreateIndex ==
    \A i \in 1..Len(files) :
        (Linted(i) /\ SingleStatement(i)
            /\ files[i].ast[1].kind = "CreateIndex") =>
                Reported(i) = IF files[i].ast[1].concurrently
                              THEN <<>>
                              ELSE <<"NonConcurrentIndex">>

C6_Witness ==
    \E i \in 1..Len(files) :
        /\ Linted(i)
        /\ SingleStatement(i)
        /\ files[i].ast[1].kind = "CreateIndex"
        /\ ~files[i].ast[1].concurrently
        /\ Reported(i) = <<"NonConcurrentIndex">>

\* ---------------------------------------------------------------- C7
Inert(stmt) ==
    \/ stmt.kind \notin {"AlterTable", "CreateIndex"}
    \/ stmt.kind = "AlterTable" /\ stmt.operation.kind # "AddColumn"
    \/ /\ IsAddColumn(stmt)
       /\ Count(Options(stmt), "NotNull") = 0
       /\ Count(Options(stmt), "Default") = 0

\* C7: a script made of inert statements only (no ALTER TABLE or CREATE
\* INDEX, an ALTER TABLE other than ADD COLUMN, an ADD COLUMN with neither
\* NOT NULL nor DEFAULT) yields zero Diagnostics and a true verdict for its
\* file.
C7_InertShapes ==
    \A i \in 1..Len(files) :
        (Linted(i) /\ files[i].parses
            /\ \A k \in 1..Len(files[i].ast) : Inert(files[i].ast[k])) =>
                /\ Reported(i) = <<>>
                /\ log[Len(log)] = i => success

C7_Witness ==
    \E i \in 1..Len(files) :
        /\ Linted(i)
        /\ files[i].parses
        /\ Len(files[i].ast) = 2
        /\ files[i].ast[1] = [kind |-> "AlterTable",
                              operation |-> [kind |-> "DropColumn"]]
        /\ files[i].ast[2] = AddColumnStmt(<<"Unique">>)
        /\ Reported(i) = <<>>
        /\ exit_code = <<0>>

\* ---------------------------------------------------------------- C8
RECURSIVE OwnDiagnostics(_)
\* What each statement of a script yields as a one-statement script, joined
\* in statement order
OwnDiagnostics(ast) ==
    IF ast = <<>>
    THEN <<>>
    ELSE lint_errors(Parsed(<<Head(ast)>>)) \o OwnDiagnostics(Tail(ast))

\* C8: the Diagnostics of a parsed script are the concatenation, in
\* statement order, of the Diagnostics each of its statements yields as a
\* script of its own.
C8_Concatenation ==
    \A i \in 1..Len(files) :
        (Linted(i) /\ files[i].parses) =>
            Diagnostics(i) = OwnDiagnostics(files[i].ast)

C8_Witness ==
    \E i \in 1..Len(files) :
        /\ Linted(i)
        /\ files[i].parses
        /\ Len(files[i].ast) = 2
        /\ files[i].ast[1] = CreateIndexStmt(FALSE)
        /\ files[i].ast[2] = AddColumnStmt(<<"Default", "NotNull">>)
        /\ Reported(i) = <<"NonConcurrentIndex", "DefaultValue", "NotNullColumn">>

\* ---------------------------------------------------------------- C9
\* A column carrying exactly one NOT NULL and exactly one DEFAULT
BothOnce(stmt) ==
    /\ IsAddColumn(stmt)
    /\ Count(Options(stmt), "NotNull") = 1
    /\ Count(Options(stmt), "Default") = 1

\* The two Diagnostics of the k-th statement of a script of BothOnce
\* statements
Pair(i, k) == <<Reported(i)[2 * k - 1], Reported(i)[2 * k]>>

\* C9 as stated: within an ADD COLUMN the NotNullColumn and DefaultValue
\* Diagnostics come in one fixed order, the same for every column
\* definition whatever the order its options are declared in.
C9_FixedOrder ==
    \A i \in 1..Len(files) :
        (Linted(i) /\ files[i].parses
            /\ \A k \in 1..Len(files[i].ast) : BothOnce(files[i].ast[k])) =>
                /\ Len(Reported(i)) = 2 * Len(files[i].ast)
                /\ \A k \in 1..Len(files[i].ast) : Pair(i, k) = Pair(i, 1)

\* C9 amended: within an ADD COLUMN the NotNullColumn and DefaultValue
\* Diagnostics come in the order the column declares NOT NULL and DEFAULT.
C9_DeclaredOrder ==
    \A i \in 1..Len(files) :
        (Linted(i) /\ files[i].parses
            /\ \A k \in 1..Len(files[i].ast) : BothOnce(files[i].ast[k])) =>
                /\ Len(Reported(i)) = 2 * Len(files[i].ast)
                /\ \A k \in 1..Len(files[i].ast) :
                      LET opts == Options(files[i].ast[k])
                      IN  Pair(i, k) =
                            IF Pos(opts, "NotNull") < Pos(opts, "Default")
                            THEN <<"NotNullColumn", "DefaultValue">>
                            ELSE <<"DefaultValue", "NotNullColumn">>

C9_Witness ==
    \E i \in 1..Len(files) :
        /\ Linted(i)
        /\ files[i].parses
        /\ Len(files[i].ast) = 2
        /\ BothOnce(files[i].ast[1])
        /\ BothOnce(files[i].ast[2])
        /\ Options(files[i].ast[1]) = <<"NotNull", "Default">>
        /\ Options(files[i].ast[2]) = <<"Default", "NotNull">>
        /\ Reported(i) = <<"NotNullColumn", "DefaultValue",
                           "DefaultValue", "NotNullColumn">>

====
